---- MODULE Spec2Model ----
(***************************************************************************)
(* Voice-activity-gated recorder of apps/whispering/src-tauri/src/recorder *)
(* /vad.rs: the session slot VAD_SESSION, the three control commands       *)
(* start_vad_recording, stop_vad_recording and get_vad_state, and the      *)
(* input callback that cpal runs on the audio thread of a playing stream.  *)
(*                                                                         *)
(* An Option<T> of the source is a set with at most one element: {} is     *)
(* None and {x} is Some(x).                                                *)
(***************************************************************************)
EXTENDS Integers, Sequences, FiniteSets, TLC

\* ---------------------------------------------------------------- bounds
MaxCommands == 3    \* commands issued over a sequential run
MaxConcurrent == 2  \* commands issued over a concurrent run
MaxTime == 2        \* the clock stops advancing here (milliseconds)
MaxChunks == 4      \* chunks the hardware delivers over a sequential run
ChunkSize == 2      \* samples per chunk (512 at vad.rs:149,197,202; scaled)
MaxConfigs == 2     \* configurations a device reports
MaxWrites == 2      \* calls of write_text

\* ------------------------------------------------------- program constants
DefaultSilenceTimeoutMs == 800

Callers == {1, 2}               \* the threads that issue commands
Sessions == 1..MaxCommands      \* a command builds at most one stream
Times == 0..MaxTime
\* a callback's slice: less than a chunk, a chunk, several chunks
SliceSizes == {1, ChunkSize, 2 * ChunkSize}

\* the sample rates, in Hz, that bound the ranges a device reports
Rates == {8000, 16000, 44100, 48000, 96000}

\* start()'s inputs: threshold and probabilities in tenths, timeout in ms
Thresholds == {5}
Probabilities == {2, 5, 9}
TimeoutInputs == {{}, {0}, {1}}

VARIABLES
    VAD_SESSION,        \* the slot: {} or {s}
    slot_lock,          \* holder of the VAD_SESSION mutex: {} or {c}
    next_session,       \* sessions built so far
    stream,             \* [s -> "none" | "built" | "playing" | "dropped"]
    is_running,         \* [s -> BOOLEAN], the session's AtomicBool
    state,              \* [s -> VadState]
    state_lock,         \* [s -> holder of the state mutex: {} or {"callback"}]
    current_writer,     \* [s -> {} or {file name}]
    audio_buffer,       \* [s -> Seq(sample)]
    last_speech_time,   \* [s -> {} or {time}]
    threshold,          \* [s -> threshold of the session]
    silence_timeout,    \* [s -> timeout of the session, ms]
    cb_pc,              \* [s -> position of the session's callback]
    cb_local,           \* [s -> the callback's chunk, is_speech, should_record]
    clock,              \* the time of the latest Instant::now() or SystemTime::now(), ms
    fs,                 \* the recordings directory: [file name -> Seq(sample)]
    pc,                 \* [c -> position of the caller]
    op,                 \* [c -> command the caller is in]
    session,            \* [c -> the caller's local session: {} or {s}]
    replaced,           \* [c -> the session that the caller's start has stopped]
    result,             \* [c -> what the command returned]
    snapshot,           \* [c -> the VadState get_vad_state returned]
    prev,               \* <<command, result>> of the command that returned last
    fed,                \* [s -> samples the hardware has delivered]
    hist,               \* [s -> summary of the chunks classified so far]
    events,             \* [s -> Seq of notifications emitted by the session]
    opened,             \* [s -> writers opened]
    closed,             \* [s -> writers finalized]
    threads,            \* the callers that issue commands
    commands_left,      \* commands still to be issued
    samples_left,       \* samples the hardware still delivers
    supported_configs,  \* the input configurations the device reports
    config,             \* the StreamConfig of the stream built last: {} or {c}
    clipboard,          \* the text on the system clipboard: {} or {text}
    keys_down,          \* the keys that enigo holds pressed
    pasted,             \* Seq of the texts the focused application was sent
    wt_pc,              \* position of write_text
    wt_text,            \* write_text's argument: {} or {text}
    original_clipboard, \* write_text's local: {} or {text}
    wt_result,          \* what write_text returned
    before,             \* the clipboard when write_text was called
    writes_left         \* calls of write_text still to be made

vars == <<VAD_SESSION, slot_lock, next_session, stream, is_running, state,
          state_lock, current_writer, audio_buffer, last_speech_time,
          threshold, silence_timeout, cb_pc, cb_local, clock, fs, pc, op,
          session, replaced, result, snapshot, prev, fed, hist, events, opened, closed,
          threads, commands_left, samples_left, supported_configs, config,
          clipboard, keys_down, pasted, wt_pc, wt_text, original_clipboard,
          wt_result, before, writes_left>>

slot_vars == <<VAD_SESSION, slot_lock>>
frame_vars == <<pc, op, session, replaced, result, snapshot>>
budget_vars == <<prev, threads, commands_left>>
control_vars == <<slot_vars, frame_vars, budget_vars>>
shared_vars == <<stream, is_running, state, state_lock>>
closure_vars == <<current_writer, audio_buffer, last_speech_time, threshold,
                  silence_timeout>>
callback_vars == <<cb_pc, cb_local>>
world_vars == <<clock, fs, samples_left>>
history_vars == <<fed, hist, events, opened, closed>>
device_vars == <<supported_configs, config>>
clip_vars == <<clipboard, keys_down, pasted, wt_pc, wt_text, original_clipboard,
               wt_result, before, writes_left>>
vad_vars == <<slot_vars, frame_vars, budget_vars, next_session, shared_vars,
              closure_vars, callback_vars, world_vars, history_vars, device_vars>>

\* ------------------------------------------------------------------ types
\* the x of Some(x)
TheOne(S) == CHOOSE x \in S : TRUE

VadState(running, speaking, file) ==
    [is_running |-> running, is_speaking |-> speaking, current_file |-> file]

IdleState == VadState(FALSE, FALSE, {})

NoLocal == [chunk |-> <<>>, probability |-> 0, now |-> 0, is_speech |-> FALSE,
            should_record |-> FALSE]

\* What the chunks classified so far looked like: bursts counts the runs of
\* speech chunks (up to 3), speech is the class of the latest chunk, gap is
\* the time from the last speech chunk of the first burst to the first
\* speech chunk of the second, timed_out says that a chunk between those
\* two bursts was processed with the silence timeout reached,
\* create_failed that create_wav_writer has failed, and write_failed that
\* write_sample has.
NoHist == [bursts |-> 0, speech |-> FALSE, gap |-> {}, timed_out |-> FALSE,
           create_failed |-> FALSE, write_failed |-> FALSE]

Min(a, b) == IF a < b THEN a ELSE b

Classified(h, is_speech, now, last_time, timeout) ==
    IF is_speech
      THEN [h EXCEPT !.speech = TRUE,
                     !.bursts = IF h.speech THEN h.bursts ELSE Min(h.bursts + 1, 3),
                     !.gap = IF ~h.speech /\ h.bursts = 1
                               THEN {now - TheOne(last_time)} ELSE h.gap]
      ELSE [h EXCEPT !.speech = FALSE,
                     !.timed_out = h.timed_out \/
                         (h.bursts = 1 /\ now - TheOne(last_time) >= timeout)]

\* no call of write_text is under way
WtIdle ==
    /\ keys_down = {}
    /\ pasted = <<>>
    /\ wt_pc = "idle"
    /\ wt_text = {}
    /\ original_clipboard = {}
    /\ wt_result = "none"
    /\ before = {}

\* write_text is not called
NoWrites ==
    /\ WtIdle
    /\ clipboard = {}
    /\ writes_left = 0

ProgramAt(time) ==
    /\ VAD_SESSION = {}
    /\ slot_lock = {}
    /\ next_session = 0
    /\ stream = [s \in Sessions |-> "none"]
    /\ is_running = [s \in Sessions |-> FALSE]
    /\ state = [s \in Sessions |-> IdleState]
    /\ state_lock = [s \in Sessions |-> {}]
    /\ current_writer = [s \in Sessions |-> {}]
    /\ audio_buffer = [s \in Sessions |-> <<>>]
    /\ last_speech_time = [s \in Sessions |-> {}]
    /\ threshold = [s \in Sessions |-> 0]
    /\ silence_timeout = [s \in Sessions |-> 0]
    /\ cb_pc = [s \in Sessions |-> "idle"]
    /\ cb_local = [s \in Sessions |-> NoLocal]
    /\ clock = time
    /\ fs = <<>>
    /\ pc = [c \in Callers |-> "idle"]
    /\ op = [c \in Callers |-> "none"]
    /\ session = [c \in Callers |-> {}]
    /\ replaced = [c \in Callers |-> {}]
    /\ result = [c \in Callers |-> "none"]
    /\ snapshot = [c \in Callers |-> IdleState]
    /\ prev = <<"none", "none">>
    /\ fed = [s \in Sessions |-> 0]
    /\ hist = [s \in Sessions |-> NoHist]
    /\ events = [s \in Sessions |-> <<>>]
    /\ opened = [s \in Sessions |-> 0]
    /\ closed = [s \in Sessions |-> 0]
    /\ config = {}
    /\ WtIdle

\* the state after construction
Program == ProgramAt(0)

\* vad.rs:101-105: a supported configuration is a range of sample rates
SupportedConfig(min_rate, max_rate) ==
    [min_sample_rate |-> min_rate, max_sample_rate |-> max_rate]

\* a device that reports the one configuration of 16 kHz
PlainDevice == <<SupportedConfig(16000, 16000)>>

\* concurrent callers, one chunk of audio
Init ==
    /\ Program
    /\ NoWrites
    /\ supported_configs = PlainDevice
    /\ threads = Callers
    /\ commands_left = MaxConcurrent
    /\ samples_left = ChunkSize

\* one caller, one chunk of audio
InitSeq ==
    /\ Program
    /\ NoWrites
    /\ supported_configs = PlainDevice
    /\ threads = {1}
    /\ commands_left = MaxCommands
    /\ samples_left = ChunkSize

\* ---------------------------------------------------------------- helpers
\* a caller issues a command
Issue(c) ==
    /\ c \in threads
    /\ pc[c] = "idle"
    /\ commands_left > 0

\* return of a command: the caller's frame is left at "done" for one state
Returns(c, cmd, res) ==
    /\ pc' = [pc EXCEPT ![c] = "done"]
    /\ op' = [op EXCEPT ![c] = cmd]
    /\ result' = [result EXCEPT ![c] = res]

\* Dropping a cpal::Stream drops the data callback with everything it
\* captured (vad.rs:168-178): the buffer, the last speech time, the
\* threshold, the timeout, and the writer; a WavWriter that is still open
\* is finalized by its Drop, and nothing is emitted.
Freed(f, S, v) == [s \in Sessions |-> IF s \in S THEN v ELSE f[s]]

\* a teardown that keeps the writer of the callback open
DropStreamLeaksWriter(S) ==
    /\ stream' = Freed(stream, S, "dropped")
    /\ closed' = closed
    /\ current_writer' = current_writer
    /\ audio_buffer' = Freed(audio_buffer, S, <<>>)
    /\ last_speech_time' = Freed(last_speech_time, S, {})
    /\ threshold' = Freed(threshold, S, 0)
    /\ silence_timeout' = Freed(silence_timeout, S, 0)
    /\ fed' = Freed(fed, S, 0)
    /\ hist' = Freed(hist, S, NoHist)

DropStreamOf(S) ==
    /\ stream' = Freed(stream, S, "dropped")
    /\ closed' = [s \in Sessions |->
                    IF s \in S /\ current_writer[s] # {} THEN closed[s] + 1
                    ELSE closed[s]]
    /\ current_writer' = Freed(current_writer, S, {})
    /\ audio_buffer' = Freed(audio_buffer, S, <<>>)
    /\ last_speech_time' = Freed(last_speech_time, S, {})
    /\ threshold' = Freed(threshold, S, 0)
    /\ silence_timeout' = Freed(silence_timeout, S, 0)
    /\ fed' = Freed(fed, S, 0)
    /\ hist' = Freed(hist, S, NoHist)

\* ---------------------------------------------------- stop_vad_recording
\* a stop that reports Ok when the slot is empty
StopTakeAlwaysOk(c) ==
    /\ Issue(c) \/ pc[c] = "stop_take"
    /\ commands_left' = IF pc[c] = "idle" THEN commands_left - 1 ELSE commands_left
    /\ slot_lock = {}
    /\ VAD_SESSION' = {}
    /\ is_running' = Freed(is_running, VAD_SESSION, FALSE)
    /\ IF pc[c] = "idle"
         THEN /\ session' = [session EXCEPT ![c] = VAD_SESSION]
              /\ IF VAD_SESSION # {}
                   THEN /\ pc' = [pc EXCEPT ![c] = "stop_drop"]
                        /\ op' = [op EXCEPT ![c] = "stop"]
                        /\ UNCHANGED result
                   ELSE Returns(c, "stop", "Ok")
              /\ UNCHANGED replaced
         ELSE /\ replaced' = [replaced EXCEPT ![c] = VAD_SESSION]
              /\ pc' = [pc EXCEPT ![c] = IF VAD_SESSION # {} THEN "stop_drop"
                                         ELSE "start_build"]
              /\ UNCHANGED <<op, session, result>>
    /\ UNCHANGED <<slot_lock, snapshot, prev, threads, next_session>>
    /\ UNCHANGED <<stream, state, state_lock>>
    /\ UNCHANGED <<closure_vars, callback_vars, world_vars, history_vars>>
    /\ UNCHANGED device_vars
    /\ UNCHANGED clip_vars

\* vad.rs:322-329 and 344-346: take the session out of the slot under the
\* slot mutex; None is NotInitialized, Some has its running flag cleared.
\* start_vad_recording calls this at vad.rs:78 and discards the result.
StopTake(c) ==
    /\ Issue(c) \/ pc[c] = "stop_take"
    /\ commands_left' = IF pc[c] = "idle" THEN commands_left - 1 ELSE commands_left
    /\ slot_lock = {}
    /\ VAD_SESSION' = {}
    /\ is_running' = Freed(is_running, VAD_SESSION, FALSE)
    /\ IF pc[c] = "idle"
         THEN /\ session' = [session EXCEPT ![c] = VAD_SESSION]
              /\ IF VAD_SESSION # {}
                   THEN /\ pc' = [pc EXCEPT ![c] = "stop_drop"]
                        /\ op' = [op EXCEPT ![c] = "stop"]
                        /\ UNCHANGED result
                   ELSE Returns(c, "stop", "NotInitialized")
              /\ UNCHANGED replaced
         ELSE /\ replaced' = [replaced EXCEPT ![c] = VAD_SESSION]
              /\ pc' = [pc EXCEPT ![c] = IF VAD_SESSION # {} THEN "stop_drop"
                                         ELSE "start_build"]
              /\ UNCHANGED <<op, session, result>>
    /\ UNCHANGED <<slot_lock, snapshot, prev, threads, next_session>>
    /\ UNCHANGED <<stream, state, state_lock>>
    /\ UNCHANGED <<closure_vars, callback_vars, world_vars, history_vars>>
    /\ UNCHANGED device_vars
    /\ UNCHANGED clip_vars

\* the session a caller inside stop_vad_recording holds
Stopping(c) == IF op[c] = "stop" THEN session[c] ELSE replaced[c]

\* a teardown that does not wait for the callback in flight
StopDropNoJoin(c) ==
    /\ pc[c] = "stop_drop"
    /\ DropStreamOf(Stopping(c))
    /\ pc' = [pc EXCEPT ![c] = "stop_reset"]
    /\ UNCHANGED <<slot_vars, budget_vars, next_session>>
    /\ UNCHANGED <<op, session, replaced, result, snapshot>>
    /\ UNCHANGED <<is_running, state, state_lock>>
    /\ UNCHANGED <<callback_vars, world_vars, events, opened>>
    /\ UNCHANGED device_vars
    /\ UNCHANGED clip_vars

\* a stop that takes the state mutex before the teardown and holds it
\* until the stream is gone
StopDropUnderStateLock(c) ==
    /\ pc[c] = "stop_drop"
    /\ \/ /\ \A s \in Stopping(c) : state_lock[s] = {}
          /\ Stopping(c) # {}
          /\ state_lock' = Freed(state_lock, Stopping(c), {"stop"})
          /\ UNCHANGED <<pc, stream, closure_vars, history_vars>>
       \/ /\ \A s \in Stopping(c) : state_lock[s] = {"stop"} /\ cb_pc[s] = "idle"
          /\ DropStreamOf(Stopping(c))
          /\ state_lock' = Freed(state_lock, Stopping(c), {})
          /\ pc' = [pc EXCEPT ![c] = "stop_reset"]
          /\ UNCHANGED <<events, opened>>
    /\ UNCHANGED <<slot_vars, budget_vars, next_session>>
    /\ UNCHANGED <<op, session, replaced, result, snapshot>>
    /\ UNCHANGED <<is_running, state>>
    /\ UNCHANGED <<callback_vars, world_vars>>
    /\ UNCHANGED device_vars
    /\ UNCHANGED clip_vars

\* vad.rs:332: drop(session.stream) returns once the audio thread has left
\* the callback; no callback of the stream starts afterwards.
StopDrop(c) ==
    /\ pc[c] = "stop_drop"
    /\ \A s \in Stopping(c) : cb_pc[s] = "idle"
    /\ DropStreamOf(Stopping(c))
    /\ pc' = [pc EXCEPT ![c] = "stop_reset"]
    /\ UNCHANGED <<slot_vars, budget_vars, next_session>>
    /\ UNCHANGED <<op, session, replaced, result, snapshot>>
    /\ UNCHANGED <<is_running, state, state_lock>>
    /\ UNCHANGED <<callback_vars, world_vars, events, opened>>
    /\ UNCHANGED device_vars
    /\ UNCHANGED clip_vars

\* vad.rs:335-343: reset the state under the state mutex, then Ok(()).
StopReset(c) ==
    /\ pc[c] = "stop_reset"
    /\ \A s \in Stopping(c) : state_lock[s] = {}
    /\ state' = Freed(state, Stopping(c), VadState(FALSE, FALSE, {}))
    /\ IF op[c] = "stop"
         THEN Returns(c, "stop", "Ok")
         ELSE /\ pc' = [pc EXCEPT ![c] = "start_build"]
              /\ UNCHANGED <<op, result>>
    /\ UNCHANGED <<slot_vars, budget_vars, next_session>>
    /\ UNCHANGED <<session, replaced, snapshot>>
    /\ UNCHANGED <<stream, is_running, state_lock>>
    /\ UNCHANGED <<closure_vars, callback_vars, world_vars, history_vars>>
    /\ UNCHANGED device_vars
    /\ UNCHANGED clip_vars

stop_vad_recording(c) == StopTake(c) \/ StopDrop(c) \/ StopReset(c)

\* --------------------------------------------------- start_vad_recording
\* a start that builds the new session without stopping the old one
StartCheckNoStop(c) ==
    /\ Issue(c)
    /\ commands_left' = commands_left - 1
    /\ slot_lock = {}
    /\ op' = [op EXCEPT ![c] = "start"]
    /\ pc' = [pc EXCEPT ![c] = "start_build"]
    /\ UNCHANGED <<slot_vars, prev, threads, next_session>>
    /\ UNCHANGED <<session, replaced, result, snapshot>>
    /\ UNCHANGED <<shared_vars, closure_vars, callback_vars, world_vars, history_vars>>
    /\ UNCHANGED device_vars
    /\ UNCHANGED clip_vars

\* vad.rs:69-80: look into the slot under the slot mutex, release it, and
\* stop the existing session if there was one.
StartCheck(c) ==
    /\ Issue(c)
    /\ commands_left' = commands_left - 1
    /\ slot_lock = {}
    /\ op' = [op EXCEPT ![c] = "start"]
    /\ pc' = [pc EXCEPT ![c] = IF VAD_SESSION # {} THEN "stop_take" ELSE "start_build"]
    /\ UNCHANGED <<slot_vars, prev, threads, next_session>>
    /\ UNCHANGED <<session, replaced, result, snapshot>>
    /\ UNCHANGED <<shared_vars, closure_vars, callback_vars, world_vars, history_vars>>
    /\ UNCHANGED device_vars
    /\ UNCHANGED clip_vars

\* The setup steps that return an error with `?` before a stream exists:
\* device resolution (vad.rs:84-96), supported configs (102-122), the
\* classifier (147-151), the recordings directory (156-157) and
\* build_input_stream (181-301).
SetupErrors == {"DeviceError", "IoError", "StreamError"}

StartSetupFails(c) ==
    /\ pc[c] = "start_build"
    /\ \E e \in SetupErrors : Returns(c, "start", e)
    /\ UNCHANGED <<slot_vars, budget_vars, next_session>>
    /\ UNCHANGED <<session, replaced, snapshot>>
    /\ UNCHANGED <<shared_vars, closure_vars, callback_vars, world_vars, history_vars>>
    /\ UNCHANGED device_vars
    /\ UNCHANGED clip_vars

\* vad.rs:171: silence_timeout_ms.unwrap_or(800)
\* the timeout that takes Some(0) for unset
SilenceTimeoutZeroUnset(silence_timeout_ms) ==
    IF silence_timeout_ms \in {{}, {0}} THEN DefaultSilenceTimeoutMs
    ELSE TheOne(silence_timeout_ms)

SilenceTimeout(silence_timeout_ms) ==
    IF silence_timeout_ms = {} THEN DefaultSilenceTimeoutMs
    ELSE TheOne(silence_timeout_ms)

\* vad.rs:109-118: the key that supported_configs is sorted by
SortKey(c) ==
    IF c.min_sample_rate = 16000 THEN 0
    ELSE IF c.min_sample_rate = 44100 \/ c.min_sample_rate = 48000 THEN 1
    ELSE 2

\* vad.rs:109-118: sort_by_key is stable
SortByKey(configs) ==
    SelectSeq(configs, LAMBDA c : SortKey(c) = 0)
        \o SelectSeq(configs, LAMBDA c : SortKey(c) = 1)
        \o SelectSeq(configs, LAMBDA c : SortKey(c) = 2)

\* vad.rs:125-136: the rate taken from the range of one configuration
ChooseRate(supported_config) ==
    LET min_rate == supported_config.min_sample_rate
        max_rate == supported_config.max_sample_rate
    IN IF min_rate <= 16000 /\ max_rate >= 16000 THEN 16000
       ELSE IF min_rate <= 48000 /\ max_rate >= 48000 THEN 48000
       ELSE IF min_rate <= 44100 /\ max_rate >= 44100 THEN 44100
       ELSE max_rate

\* vad.rs:120-142: the first configuration after the sort gives the rate
StreamConfig(configs) ==
    [channels |-> 1, sample_rate |-> ChooseRate(Head(SortByKey(configs)))]

\* vad.rs:159-301: the shared state of the new session and its stream.
StartBuild(c) ==
    /\ pc[c] = "start_build"
    /\ supported_configs # <<>>
    /\ config' = {StreamConfig(supported_configs)}
    /\ UNCHANGED supported_configs
    /\ UNCHANGED clip_vars
    /\ next_session' = next_session + 1
    /\ \E th \in Thresholds, silence_timeout_ms \in TimeoutInputs :
         /\ threshold' = [threshold EXCEPT ![next_session'] = th]
         /\ silence_timeout' = [silence_timeout EXCEPT ![next_session'] =
                                   SilenceTimeout(silence_timeout_ms)]
    /\ stream' = [stream EXCEPT ![next_session'] = "built"]
    /\ is_running' = [is_running EXCEPT ![next_session'] = TRUE]
    /\ state' = [state EXCEPT ![next_session'] = VadState(TRUE, FALSE, {})]
    /\ current_writer' = [current_writer EXCEPT ![next_session'] = {}]
    /\ audio_buffer' = [audio_buffer EXCEPT ![next_session'] = <<>>]
    /\ last_speech_time' = [last_speech_time EXCEPT ![next_session'] = {}]
    /\ session' = [session EXCEPT ![c] = {next_session'}]
    /\ pc' = [pc EXCEPT ![c] = "start_play"]
    /\ UNCHANGED <<slot_vars, budget_vars>>
    /\ UNCHANGED <<op, replaced, result, snapshot>>
    /\ UNCHANGED <<state_lock, callback_vars, world_vars, history_vars>>

\* vad.rs:303: stream.play()
StartPlay(c) ==
    /\ pc[c] = "start_play"
    /\ stream' = [stream EXCEPT ![TheOne(session[c])] = "playing"]
    /\ pc' = [pc EXCEPT ![c] = "start_lock"]
    /\ UNCHANGED <<slot_vars, budget_vars, next_session>>
    /\ UNCHANGED <<op, session, replaced, result, snapshot>>
    /\ UNCHANGED <<is_running, state, state_lock>>
    /\ UNCHANGED <<closure_vars, callback_vars, world_vars, history_vars>>
    /\ UNCHANGED device_vars
    /\ UNCHANGED clip_vars

\* A VadSession that is dropped whole takes its running flag and its state
\* with it; what is left is what a session that was never built shows.
DropSession(S) ==
    /\ DropStreamOf(S)
    /\ is_running' = Freed(is_running, S, FALSE)
    /\ state' = Freed(state, S, IdleState)

\* a failed play() whose stream is kept, and runs
StartPlayFailsLeaks(c) ==
    /\ pc[c] = "start_play"
    /\ stream' = [stream EXCEPT ![TheOne(session[c])] = "playing"]
    /\ Returns(c, "start", "StreamError")
    /\ UNCHANGED <<slot_vars, budget_vars, next_session>>
    /\ UNCHANGED <<session, replaced, snapshot>>
    /\ UNCHANGED <<is_running, state, state_lock>>
    /\ UNCHANGED <<closure_vars, callback_vars, world_vars, history_vars>>
    /\ UNCHANGED device_vars
    /\ UNCHANGED clip_vars

\* vad.rs:303: on Err the `?` returns and the locals of the frame, the
\* stream, the flag and the state, are dropped.
StartPlayFails(c) ==
    /\ pc[c] = "start_play"
    /\ DropSession(session[c])
    /\ Returns(c, "start", "StreamError")
    /\ UNCHANGED <<slot_vars, budget_vars, next_session>>
    /\ UNCHANGED <<session, replaced, snapshot>>
    /\ UNCHANGED state_lock
    /\ UNCHANGED <<callback_vars, world_vars, events, opened>>
    /\ UNCHANGED device_vars
    /\ UNCHANGED clip_vars

\* vad.rs:307: VAD_SESSION.lock()
StartLock(c) ==
    /\ pc[c] = "start_lock"
    /\ slot_lock = {}
    /\ slot_lock' = {c}
    /\ pc' = [pc EXCEPT ![c] = "start_store"]
    /\ UNCHANGED <<VAD_SESSION, budget_vars, next_session>>
    /\ UNCHANGED <<op, session, replaced, result, snapshot>>
    /\ UNCHANGED <<shared_vars, closure_vars, callback_vars, world_vars, history_vars>>
    /\ UNCHANGED device_vars
    /\ UNCHANGED clip_vars

\* vad.rs:308-316: the assignment drops the value the slot held, stream
\* included, before the guard is released.
StartStore(c) ==
    /\ pc[c] = "start_store"
    /\ \A s \in VAD_SESSION : cb_pc[s] = "idle"
    /\ DropSession(VAD_SESSION)
    /\ VAD_SESSION' = session[c]
    /\ slot_lock' = {}
    /\ Returns(c, "start", "Ok")
    /\ UNCHANGED <<budget_vars, next_session>>
    /\ UNCHANGED <<session, replaced, snapshot>>
    /\ UNCHANGED state_lock
    /\ UNCHANGED <<callback_vars, world_vars, events, opened>>
    /\ UNCHANGED device_vars
    /\ UNCHANGED clip_vars

start_vad_recording(c) ==
    \/ StartCheck(c)
    \/ StartSetupFails(c)
    \/ StartBuild(c)
    \/ StartPlay(c)
    \/ StartPlayFails(c)
    \/ StartLock(c)
    \/ StartStore(c)

\* --------------------------------------------------------- get_vad_state
\* vad.rs:350-361: lock the slot; None returns the default at once.
GetLock(c) ==
    /\ Issue(c)
    /\ commands_left' = commands_left - 1
    /\ slot_lock = {}
    /\ IF VAD_SESSION = {}
         THEN /\ snapshot' = [snapshot EXCEPT ![c] = VadState(FALSE, FALSE, {})]
              /\ Returns(c, "get", "Ok")
              /\ UNCHANGED slot_lock
         ELSE /\ slot_lock' = {c}
              /\ pc' = [pc EXCEPT ![c] = "get_read"]
              /\ op' = [op EXCEPT ![c] = "get"]
              /\ UNCHANGED <<snapshot, result>>
    /\ UNCHANGED <<VAD_SESSION, prev, threads, next_session>>
    /\ UNCHANGED <<session, replaced>>
    /\ UNCHANGED <<shared_vars, closure_vars, callback_vars, world_vars, history_vars>>
    /\ UNCHANGED device_vars
    /\ UNCHANGED clip_vars

\* a read that clears is_speaking as it reads
GetReadClears(c) ==
    /\ pc[c] = "get_read"
    /\ state_lock[TheOne(VAD_SESSION)] = {}
    /\ snapshot' = [snapshot EXCEPT ![c] = state[TheOne(VAD_SESSION)]]
    /\ state' = [state EXCEPT ![TheOne(VAD_SESSION)].is_speaking = FALSE]
    /\ slot_lock' = {}
    /\ Returns(c, "get", "Ok")
    /\ UNCHANGED <<VAD_SESSION, budget_vars, next_session>>
    /\ UNCHANGED <<session, replaced>>
    /\ UNCHANGED <<stream, is_running, state_lock>>
    /\ UNCHANGED <<closure_vars, callback_vars, world_vars, history_vars>>
    /\ UNCHANGED device_vars
    /\ UNCHANGED clip_vars

\* a read that answers with the default whatever the session says
GetReadDefault(c) ==
    /\ pc[c] = "get_read"
    /\ state_lock[TheOne(VAD_SESSION)] = {}
    /\ snapshot' = [snapshot EXCEPT ![c] = VadState(FALSE, FALSE, {})]
    /\ slot_lock' = {}
    /\ Returns(c, "get", "Ok")
    /\ UNCHANGED <<VAD_SESSION, budget_vars, next_session>>
    /\ UNCHANGED <<session, replaced>>
    /\ UNCHANGED <<shared_vars, closure_vars, callback_vars, world_vars, history_vars>>
    /\ UNCHANGED device_vars
    /\ UNCHANGED clip_vars

\* vad.rs:352-354: lock the session's state, clone it, release both guards.
GetRead(c) ==
    /\ pc[c] = "get_read"
    /\ state_lock[TheOne(VAD_SESSION)] = {}
    /\ snapshot' = [snapshot EXCEPT ![c] = state[TheOne(VAD_SESSION)]]
    /\ slot_lock' = {}
    /\ Returns(c, "get", "Ok")
    /\ UNCHANGED <<VAD_SESSION, budget_vars, next_session>>
    /\ UNCHANGED <<session, replaced>>
    /\ UNCHANGED <<shared_vars, closure_vars, callback_vars, world_vars, history_vars>>
    /\ UNCHANGED device_vars
    /\ UNCHANGED clip_vars

get_vad_state(c) == GetLock(c) \/ GetRead(c)

\* the caller takes the result and is free to issue the next command
Return(c) ==
    /\ pc[c] = "done"
    /\ prev' = <<op[c], result[c]>>
    /\ pc' = [pc EXCEPT ![c] = "idle"]
    /\ op' = [op EXCEPT ![c] = "none"]
    /\ result' = [result EXCEPT ![c] = "none"]
    /\ session' = [session EXCEPT ![c] = {}]
    /\ replaced' = [replaced EXCEPT ![c] = {}]
    /\ snapshot' = [snapshot EXCEPT ![c] = IdleState]
    /\ UNCHANGED <<slot_vars, threads, commands_left, next_session>>
    /\ UNCHANGED <<shared_vars, closure_vars, callback_vars, world_vars, history_vars>>
    /\ UNCHANGED device_vars
    /\ UNCHANGED clip_vars

\* --------------------------------------------------------- input callback
\* vad.rs:183-192: the data callback of a playing stream receives a slice
\* of the host's choosing; it returns at once when the running flag is
\* clear and otherwise appends the slice to the buffer.
Slice(from, n) == [i \in 1..n |-> from + i]

CallbackEnter(s) ==
    /\ stream[s] = "playing"
    /\ cb_pc[s] = "idle"
    /\ \E n \in SliceSizes :
         /\ n <= samples_left
         /\ samples_left' = samples_left - n
         /\ fed' = [fed EXCEPT ![s] = fed[s] + n]
         /\ IF is_running[s]
              THEN /\ audio_buffer' = [audio_buffer EXCEPT ![s] =
                                         audio_buffer[s] \o Slice(fed[s], n)]
                   /\ cb_pc' = [cb_pc EXCEPT ![s] = "loop"]
              ELSE UNCHANGED <<audio_buffer, cb_pc>>
    /\ UNCHANGED <<control_vars, shared_vars, next_session>>
    /\ UNCHANGED <<current_writer, last_speech_time, threshold, silence_timeout>>
    /\ UNCHANGED <<cb_local, clock, fs, hist, events, opened, closed>>
    /\ UNCHANGED device_vars
    /\ UNCHANGED clip_vars

\* the classification that takes the threshold itself for speech
IsSpeechInclusive(probability, th) == probability >= th

\* vad.rs:206-212: probability > threshold
IsSpeech(probability, th) == probability > th

\* the comparison off by one: the timeout itself still records
ShouldRecordInclusive(last_time, now, timeout) ==
    IF last_time # {} THEN now - TheOne(last_time) <= timeout ELSE FALSE

\* no hysteresis: only a chunk that is speech itself records
ShouldRecordSpeechOnly(last_time, now, timeout) == last_time = {now}

\* recording before any speech was heard
ShouldRecordFromStart(last_time, now, timeout) ==
    IF last_time # {} THEN now - TheOne(last_time) < timeout ELSE TRUE

\* vad.rs:223-230
ShouldRecord(last_time, now, timeout) ==
    IF last_time # {} THEN now - TheOne(last_time) < timeout ELSE FALSE

\* a chunker that empties the queue with each chunk it takes
CallbackChunkClears(s) ==
    /\ cb_pc[s] = "loop"
    /\ Len(audio_buffer[s]) >= ChunkSize
    /\ audio_buffer' = [audio_buffer EXCEPT ![s] = <<>>]
    /\ \E probability \in Probabilities, now \in clock..MaxTime :
         LET is_speech == IsSpeech(probability, threshold[s])
             last_time == IF is_speech THEN {now} ELSE last_speech_time[s]
         IN /\ last_speech_time' = [last_speech_time EXCEPT ![s] = last_time]
            /\ cb_local' = [cb_local EXCEPT ![s] =
                  [chunk |-> SubSeq(audio_buffer[s], 1, ChunkSize),
                   now |-> now,
                   probability |-> probability,
                   is_speech |-> is_speech,
                   should_record |-> ShouldRecord(last_time, now, silence_timeout[s])]]
            /\ hist' = [hist EXCEPT ![s] =
                  Classified(hist[s], is_speech, now, last_speech_time[s],
                             silence_timeout[s])]
            /\ clock' = now
    /\ cb_pc' = [cb_pc EXCEPT ![s] = "lock"]
    /\ UNCHANGED <<control_vars, shared_vars, next_session>>
    /\ UNCHANGED <<current_writer, threshold, silence_timeout>>
    /\ UNCHANGED <<fs, samples_left, fed, events, opened, closed>>
    /\ UNCHANGED device_vars
    /\ UNCHANGED clip_vars

\* vad.rs:195-230: with a whole chunk queued, drain it from the front,
\* classify it, take the time, refresh the last speech time and decide
\* whether the session should be recording.
CallbackChunk(s) ==
    /\ cb_pc[s] = "loop"
    /\ Len(audio_buffer[s]) >= ChunkSize
    /\ audio_buffer' = [audio_buffer EXCEPT ![s] =
                          SubSeq(audio_buffer[s], ChunkSize + 1, Len(audio_buffer[s]))]
    /\ \E probability \in Probabilities, now \in clock..MaxTime :
         LET is_speech == IsSpeech(probability, threshold[s])
             last_time == IF is_speech THEN {now} ELSE last_speech_time[s]
         IN /\ last_speech_time' = [last_speech_time EXCEPT ![s] = last_time]
            /\ cb_local' = [cb_local EXCEPT ![s] =
                  [chunk |-> SubSeq(audio_buffer[s], 1, ChunkSize),
                   now |-> now,
                   probability |-> probability,
                   is_speech |-> is_speech,
                   should_record |-> ShouldRecord(last_time, now, silence_timeout[s])]]
            /\ hist' = [hist EXCEPT ![s] =
                  Classified(hist[s], is_speech, now, last_speech_time[s],
                             silence_timeout[s])]
            /\ clock' = now
    /\ cb_pc' = [cb_pc EXCEPT ![s] = "lock"]
    /\ UNCHANGED <<control_vars, shared_vars, next_session>>
    /\ UNCHANGED <<current_writer, threshold, silence_timeout>>
    /\ UNCHANGED <<fs, samples_left, fed, events, opened, closed>>
    /\ UNCHANGED device_vars
    /\ UNCHANGED clip_vars

\* vad.rs:195-198 and 296: fewer than a chunk queued, the callback returns.
CallbackReturn(s) ==
    /\ cb_pc[s] = "loop"
    /\ Len(audio_buffer[s]) < ChunkSize
    /\ cb_pc' = [cb_pc EXCEPT ![s] = "idle"]
    /\ UNCHANGED <<control_vars, shared_vars, next_session>>
    /\ UNCHANGED <<closure_vars, cb_local, world_vars, history_vars>>
    /\ UNCHANGED device_vars
    /\ UNCHANGED clip_vars

\* vad.rs:233-234: the writer mutex is the callback's alone; the state
\* mutex is shared with get_vad_state and stop_vad_recording.
CallbackLock(s) ==
    /\ cb_pc[s] = "lock"
    /\ state_lock[s] = {}
    /\ state_lock' = [state_lock EXCEPT ![s] = {"callback"}]
    /\ cb_pc' = [cb_pc EXCEPT ![s] = "transition"]
    /\ UNCHANGED <<control_vars, next_session>>
    /\ UNCHANGED <<stream, is_running, state>>
    /\ UNCHANGED <<closure_vars, cb_local, world_vars, history_vars>>
    /\ UNCHANGED device_vars
    /\ UNCHANGED clip_vars

\* vad.rs:372-386: File::create makes the file or truncates the one there.
CreateFile(files, path) ==
    [f \in DOMAIN files \cup {path} |-> IF f = path THEN <<>> ELSE files[f]]

\* vad.rs:290-294: the samples of the chunk go to the open writer; written
\* is the outcome of write_sample, which the callback does not look at.
WriteSamples(files, writer, chunk, written) ==
    IF writer # {} /\ written
      THEN [files EXCEPT ![TheOne(writer)] = files[TheOne(writer)] \o chunk]
      ELSE files

\* vad.rs:238-243: "vad_{timestamp}_0.wav" in the recordings directory; the
\* time in milliseconds is the only part of the name that varies.
FileName(timestamp) == timestamp

\* vad.rs:248-255
SpeechStart(s, file_path) ==
    [writer |-> {file_path},
     state |-> [state[s] EXCEPT !.is_speaking = TRUE, !.current_file = {file_path}],
     files |-> CreateFile(fs, file_path),
     emit |-> <<[name |-> "vad-speech-start", file_path |-> {}, file_contents |-> {}]>>,
     opened |-> 1, closed |-> 0]

\* vad.rs:270-277: fs::read of the completed file; read is its outcome
FileContents(files, file_path, read) ==
    IF read /\ file_path \subseteq DOMAIN files
      THEN {files[TheOne(file_path)]}
      ELSE {}

\* the speech end that forgets to clear current_file
SpeechEndKeepsFile(s, read) ==
    [writer |-> {},
     state |-> [state[s] EXCEPT !.is_speaking = FALSE],
     files |-> fs,
     emit |-> <<[name |-> "vad-speech-detected", file_path |-> state[s].current_file,
                 file_contents |-> FileContents(fs, state[s].current_file, read)]>>,
     opened |-> 0, closed |-> 1]

\* the speech end that appends the closing chunk before it closes the file
SpeechEndWritesChunk(s, read) ==
    [writer |-> {},
     state |-> [state[s] EXCEPT !.is_speaking = FALSE, !.current_file = {}],
     files |-> [fs EXCEPT ![TheOne(current_writer[s])] = @ \o cb_local[s].chunk],
     emit |-> <<[name |-> "vad-speech-detected", file_path |-> state[s].current_file,
                 file_contents |-> FileContents(fs, state[s].current_file, read)]>>,
     opened |-> 0, closed |-> 1]

\* the speech end that gives up, with no notification, when the read fails
SpeechEndNeedsContents(s, read) ==
    [writer |-> {},
     state |-> [state[s] EXCEPT !.is_speaking = FALSE, !.current_file = {}],
     files |-> fs,
     emit |-> IF read
                THEN <<[name |-> "vad-speech-detected", file_path |-> state[s].current_file,
                        file_contents |-> FileContents(fs, state[s].current_file, read)]>>
                ELSE <<>>,
     opened |-> 0, closed |-> 1]

\* vad.rs:262-286
SpeechEnd(s, read) ==
    [writer |-> {},
     state |-> [state[s] EXCEPT !.is_speaking = FALSE, !.current_file = {}],
     files |-> fs,
     emit |-> <<[name |-> "vad-speech-detected", file_path |-> state[s].current_file,
                 file_contents |-> FileContents(fs, state[s].current_file, read)]>>,
     opened |-> 0, closed |-> 1]

\* vad.rs:256-258 and the fall through of vad.rs:236-287
NoTransition(s) ==
    [writer |-> current_writer[s], state |-> state[s], files |-> fs,
     emit |-> <<>>, opened |-> 0, closed |-> 0]

\* a speech-start that is emitted before the file is created
TransitionEmitsBeforeCreate(s, should_record, timestamp, created, read) ==
    IF should_record /\ current_writer[s] = {}
      THEN IF created THEN SpeechStart(s, FileName(timestamp))
           ELSE [NoTransition(s) EXCEPT
                   !.emit = SpeechStart(s, FileName(timestamp)).emit]
      ELSE IF ~should_record /\ current_writer[s] # {}
             THEN SpeechEnd(s, read)
             ELSE NoTransition(s)

\* a failed creation that still marks the session as speaking
TransitionMarksSpeaking(s, should_record, timestamp, created, read) ==
    IF should_record /\ current_writer[s] = {}
      THEN IF created THEN SpeechStart(s, FileName(timestamp))
           ELSE [NoTransition(s) EXCEPT
                   !.state = [state[s] EXCEPT !.is_speaking = TRUE]]
      ELSE IF ~should_record /\ current_writer[s] # {}
             THEN SpeechEnd(s, read)
             ELSE NoTransition(s)

\* vad.rs:236-287: what one chunk does to the writer, the state, the
\* recordings directory and the notification sink; created is the outcome
\* of create_wav_writer when the chunk opens a recording, read the outcome
\* of fs::read when the chunk closes one.
Transition(s, should_record, timestamp, created, read) ==
    IF should_record /\ current_writer[s] = {}
      THEN IF created THEN SpeechStart(s, FileName(timestamp)) ELSE NoTransition(s)
      ELSE IF ~should_record /\ current_writer[s] # {}
             THEN SpeechEnd(s, read)
             ELSE NoTransition(s)

\* vad.rs:236-295: the transition and the write happen with both guards
\* held; the guards are released at the end of the loop body.
CallbackTransition(s) ==
    /\ cb_pc[s] = "transition"
    /\ \E timestamp \in clock..MaxTime, created \in BOOLEAN, written \in BOOLEAN,
          read \in BOOLEAN :
         LET t == Transition(s, cb_local[s].should_record, timestamp, created, read)
         IN /\ clock' = IF cb_local[s].should_record /\ current_writer[s] = {}
                          THEN timestamp ELSE clock
            /\ current_writer' = [current_writer EXCEPT ![s] = t.writer]
            /\ state' = [state EXCEPT ![s] = t.state]
            /\ fs' = WriteSamples(t.files, t.writer, cb_local[s].chunk, written)
            /\ events' = [events EXCEPT ![s] = events[s] \o t.emit]
            /\ opened' = [opened EXCEPT ![s] = opened[s] + t.opened]
            /\ closed' = [closed EXCEPT ![s] = closed[s] + t.closed]
            /\ hist' = [hist EXCEPT
                  ![s].create_failed =
                      @ \/ (cb_local[s].should_record /\ current_writer[s] = {} /\ ~created),
                  ![s].write_failed = @ \/ (t.writer # {} /\ ~written)]
    /\ state_lock' = [state_lock EXCEPT ![s] = {}]
    /\ cb_local' = [cb_local EXCEPT ![s] = NoLocal]
    /\ cb_pc' = [cb_pc EXCEPT ![s] = "loop"]
    /\ UNCHANGED <<control_vars, next_session>>
    /\ UNCHANGED <<stream, is_running>>
    /\ UNCHANGED <<audio_buffer, last_speech_time, threshold, silence_timeout>>
    /\ UNCHANGED <<fed, samples_left>>
    /\ UNCHANGED device_vars
    /\ UNCHANGED clip_vars

input_callback(s) ==
    \/ CallbackEnter(s)
    \/ CallbackChunk(s)
    \/ CallbackReturn(s)
    \/ CallbackLock(s)
    \/ CallbackTransition(s)

\* ---------------------------------------------------------- specification
\* The recorder at work: start_vad_recording has returned Ok to the one
\* caller, who has one more command to issue, and the hardware delivers
\* MaxChunks chunks of audio.
InitRec ==
    /\ NoWrites
    /\ supported_configs = PlainDevice
    /\ config = {StreamConfig(PlainDevice)}
    /\ \E th \in Thresholds, silence_timeout_ms \in TimeoutInputs :
         /\ threshold = [s \in Sessions |-> IF s = 1 THEN th ELSE 0]
         /\ silence_timeout = [s \in Sessions |->
               IF s = 1 THEN SilenceTimeout(silence_timeout_ms) ELSE 0]
    /\ VAD_SESSION = {1}
    /\ slot_lock = {}
    /\ next_session = 1
    /\ stream = [s \in Sessions |-> IF s = 1 THEN "playing" ELSE "none"]
    /\ is_running = [s \in Sessions |-> s = 1]
    /\ state = [s \in Sessions |-> IF s = 1 THEN VadState(TRUE, FALSE, {}) ELSE IdleState]
    /\ state_lock = [s \in Sessions |-> {}]
    /\ current_writer = [s \in Sessions |-> {}]
    /\ audio_buffer = [s \in Sessions |-> <<>>]
    /\ last_speech_time = [s \in Sessions |-> {}]
    /\ cb_pc = [s \in Sessions |-> "idle"]
    /\ cb_local = [s \in Sessions |-> NoLocal]
    /\ clock = 0
    /\ fs = <<>>
    /\ pc = [c \in Callers |-> "idle"]
    /\ op = [c \in Callers |-> "none"]
    /\ session = [c \in Callers |-> {}]
    /\ replaced = [c \in Callers |-> {}]
    /\ result = [c \in Callers |-> "none"]
    /\ snapshot = [c \in Callers |-> IdleState]
    /\ prev = <<"start", "Ok">>
    /\ fed = [s \in Sessions |-> 0]
    /\ hist = [s \in Sessions |-> NoHist]
    /\ events = [s \in Sessions |-> <<>>]
    /\ opened = [s \in Sessions |-> 0]
    /\ closed = [s \in Sessions |-> 0]
    /\ threads = {1}
    /\ commands_left = 1
    /\ samples_left = MaxChunks * ChunkSize

Next ==
    \/ \E c \in Callers : start_vad_recording(c)
    \/ \E c \in Callers : stop_vad_recording(c)
    \/ \E c \in Callers : get_vad_state(c)
    \/ \E c \in Callers : Return(c)
    \/ \E s \in Sessions : input_callback(s)

Spec == Init /\ [][Next]_vars

SpecSeq == InitSeq /\ [][Next]_vars

\* A command that has been called runs on: the async runtime keeps polling
\* its future, and a thread that waits for a mutex or for the audio thread
\* goes on once it can. Nobody has to call a command.
Proceed(c) ==
    /\ pc[c] # "idle"
    /\ \/ start_vad_recording(c)
       \/ stop_vad_recording(c)
       \/ get_vad_state(c)
       \/ Return(c)

\* The audio thread runs a callback it has entered to its end; the
\* hardware does not have to deliver audio.
CallbackProceed(s) == cb_pc[s] # "idle" /\ input_callback(s)

Fairness ==
    /\ \A c \in Callers : WF_vars(Proceed(c))
    /\ \A s \in Sessions : WF_vars(CallbackProceed(s))

\* concurrent callers and one chunk of audio at a time when the clock
\* has stopped advancing: the timing of the chunks plays no part in who
\* waits for whom
InitLive ==
    /\ ProgramAt(MaxTime)
    /\ NoWrites
    /\ supported_configs = PlainDevice
    /\ threads = Callers
    /\ commands_left = MaxConcurrent
    /\ samples_left = ChunkSize

\* concurrent callers and one chunk of audio, under fair scheduling
SpecLive == InitLive /\ [][Next]_vars /\ Fairness

\* the recorder with a caller that can only stop it
NextRec ==
    \/ \E c \in Callers : stop_vad_recording(c)
    \/ \E c \in Callers : Return(c)
    \/ \E s \in Sessions : input_callback(s)

SpecRec == InitRec /\ [][NextRec]_vars

\* The devices: every list of up to MaxConfigs ranges of sample rates.
ConfigRanges ==
    {[min_sample_rate |-> lo, max_sample_rate |-> hi] : lo \in Rates, hi \in Rates}

Devices ==
    UNION {[1..n -> {r \in ConfigRanges : r.min_sample_rate <= r.max_sample_rate}] :
             n \in 0..MaxConfigs}

\* one start_vad_recording on any of the devices, no audio delivered
InitCfg ==
    /\ Program
    /\ NoWrites
    /\ supported_configs \in Devices
    /\ threads = {1}
    /\ commands_left = 1
    /\ samples_left = 0

NextCfg ==
    \/ \E c \in Callers : start_vad_recording(c)
    \/ \E c \in Callers : Return(c)

SpecCfg == InitCfg /\ [][NextCfg]_vars

\* ------------------------------------------------------------- write_text
\* lib.rs:104-155, the clipboard sandwich. The clipboard and the keyboard
\* are the system's: a failed clipboard write leaves the clipboard as it
\* was, a failed key event leaves the keys as they were.
Texts == {"a", "b", "c"}

\* lib.rs:121-126: the two keys of the paste shortcut
Modifier == "modifier"
VKey == "v"

\* lib.rs:105-107: read_text().ok() is None when the clipboard holds no
\* text and when the read fails.
WtSave ==
    /\ wt_pc = "idle"
    /\ writes_left > 0
    /\ writes_left' = writes_left - 1
    /\ \E text \in Texts : wt_text' = {text}
    /\ \E read_ok \in BOOLEAN :
         original_clipboard' = IF read_ok THEN clipboard ELSE {}
    /\ before' = clipboard
    /\ wt_pc' = "write"
    /\ UNCHANGED <<clipboard, keys_down, pasted, wt_result>>
    /\ UNCHANGED vad_vars

\* return of write_text
WtReturns(res) ==
    /\ wt_pc' = "done"
    /\ wt_result' = res

\* lib.rs:110-115
WtWrite ==
    /\ wt_pc = "write"
    /\ clipboard' = wt_text
    /\ wt_pc' = "enigo"
    /\ UNCHANGED <<keys_down, pasted, wt_text, original_clipboard, wt_result,
                   before, writes_left>>
    /\ UNCHANGED vad_vars

\* lib.rs:112: Err of the clipboard write
WtWriteFails ==
    /\ wt_pc = "write"
    /\ WtReturns("Err")
    /\ UNCHANGED <<clipboard, keys_down, pasted, wt_text, original_clipboard,
                   before, writes_left>>
    /\ UNCHANGED vad_vars

\* lib.rs:118
WtEnigo ==
    /\ wt_pc = "enigo"
    /\ wt_pc' = "press_modifier"
    /\ UNCHANGED <<clipboard, keys_down, pasted, wt_text, original_clipboard,
                   wt_result, before, writes_left>>
    /\ UNCHANGED vad_vars

\* lib.rs:118: Err of Enigo::new
WtEnigoFails ==
    /\ wt_pc = "enigo"
    /\ WtReturns("Err")
    /\ UNCHANGED <<clipboard, keys_down, pasted, wt_text, original_clipboard,
                   before, writes_left>>
    /\ UNCHANGED vad_vars

\* lib.rs:128-142: the four key events in their order
KeySteps == <<"press_modifier", "press_v", "release_v", "release_modifier", "restore">>

KeyStep(at) == CHOOSE i \in 1..4 : KeySteps[i] = at

\* the keys held after a key event, and what the focused application is
\* sent: the clipboard, when V goes down with the modifier held
KeysAfter(at, keys) ==
    IF at = "press_modifier" THEN keys \cup {Modifier}
    ELSE IF at = "press_v" THEN keys \cup {VKey}
    ELSE IF at = "release_v" THEN keys \ {VKey}
    ELSE keys \ {Modifier}

Paste(at, keys, clip) ==
    IF at = "press_v" /\ Modifier \in keys THEN <<clip>> ELSE <<>>

WtKey ==
    /\ wt_pc \in {"press_modifier", "press_v", "release_v", "release_modifier"}
    /\ keys_down' = KeysAfter(wt_pc, keys_down)
    /\ pasted' = pasted \o Paste(wt_pc, keys_down, clipboard)
    /\ wt_pc' = KeySteps[KeyStep(wt_pc) + 1]
    /\ UNCHANGED <<clipboard, wt_text, original_clipboard, wt_result, before,
                   writes_left>>
    /\ UNCHANGED vad_vars

\* lib.rs:131,134,139,142: Err of a key event
WtKeyFails ==
    /\ wt_pc \in {"press_modifier", "press_v", "release_v", "release_modifier"}
    /\ WtReturns("Err")
    /\ UNCHANGED <<clipboard, keys_down, pasted, wt_text, original_clipboard,
                   before, writes_left>>
    /\ UNCHANGED vad_vars

\* lib.rs:145-154
WtRestore ==
    /\ wt_pc = "restore"
    /\ clipboard' = IF original_clipboard # {} THEN original_clipboard ELSE clipboard
    /\ WtReturns("Ok")
    /\ UNCHANGED <<keys_down, pasted, wt_text, original_clipboard, before,
                   writes_left>>
    /\ UNCHANGED vad_vars

\* lib.rs:149-151: Err of the clipboard write that restores
WtRestoreFails ==
    /\ wt_pc = "restore"
    /\ original_clipboard # {}
    /\ WtReturns("Err")
    /\ UNCHANGED <<clipboard, keys_down, pasted, wt_text, original_clipboard,
                   before, writes_left>>
    /\ UNCHANGED vad_vars

\* the caller takes the result
WtReturn ==
    /\ wt_pc = "done"
    /\ wt_pc' = "idle"
    /\ wt_text' = {}
    /\ original_clipboard' = {}
    /\ wt_result' = "none"
    /\ before' = {}
    /\ UNCHANGED <<clipboard, keys_down, pasted, writes_left>>
    /\ UNCHANGED vad_vars

write_text ==
    \/ WtSave
    \/ WtWrite
    \/ WtWriteFails
    \/ WtEnigo
    \/ WtEnigoFails
    \/ WtKey
    \/ WtKeyFails
    \/ WtRestore
    \/ WtRestoreFails
    \/ WtReturn

\* MaxWrites calls of write_text, one after the other, on any clipboard
InitClip ==
    /\ Program
    /\ supported_configs = PlainDevice
    /\ threads = {}
    /\ commands_left = 0
    /\ samples_left = 0
    /\ clipboard \in {{}} \cup {{x} : x \in Texts}
    /\ writes_left = MaxWrites

NextClip == write_text

SpecClip == InitClip /\ [][NextClip]_vars

\* ------------------------------------------------------------------------
\* Claims
\* ------------------------------------------------------------------------
Playing == {s \in Sessions : stream[s] = "playing"}

\* a caller's stop_vad_recording has returned Ok for session s
StopReturned(c, s) ==
    /\ pc[c] = "done"
    /\ op[c] = "stop"
    /\ result[c] = "Ok"
    /\ session[c] = {s}

\* C1: under every interleaving of start, stop and getState by concurrent
\* callers, at most one hardware stream is playing at any moment.
C1_AtMostOneStream == Cardinality(Playing) <= 1

\* inside stop: the handle has left the slot before the stream is torn
\* down, and the stream is torn down before the state is reset
C2_Order ==
    \A c \in Callers : \A s \in Stopping(c) :
        /\ pc[c] = "stop_drop" =>
              s \notin VAD_SESSION /\ stream[s] = "playing" /\ state[s].is_running
        /\ pc[c] = "stop_reset" =>
              s \notin VAD_SESSION /\ stream[s] = "dropped" /\ cb_pc[s] = "idle"

\* what stop leaves when it returns Ok
C2_Returned ==
    \A c \in Callers : \A s \in Sessions :
        StopReturned(c, s) =>
            /\ s \notin VAD_SESSION
            /\ stream[s] = "dropped"
            /\ cb_pc[s] = "idle"
            /\ current_writer[s] = {}
            /\ state[s] = VadState(FALSE, FALSE, {})

\* a session whose stream is torn down does nothing any more
C2_Quiet ==
    /\ \A s \in Sessions :
         /\ stream[s] = "dropped" =>
               /\ cb_pc'[s] = "idle"
               /\ current_writer'[s] = {}
               /\ events'[s] = events[s]
               /\ opened'[s] = opened[s]
               /\ closed'[s] = closed[s]
               /\ state'[s] = state[s] \/ state'[s] = VadState(FALSE, FALSE, {})
    /\ fs' # fs => \E s \in Playing : cb_pc[s] = "transition"

\* C2: stop is safe against a callback in flight. The handle leaves the
\* slot before the stream is torn down, and the state is reset only after
\* the teardown; once the stream is torn down no callback of the session
\* is in flight or starts, and nothing of the session opens, writes,
\* closes or notifies any more; when stop returns the state is all idle.
C2_StopIsSafe == [](C2_Order /\ C2_Returned) /\ [][C2_Quiet]_vars

\* stop has returned for a session that a callback had put to capturing
C2_Witness ==
    \E c \in Callers, s \in Sessions :
        StopReturned(c, s) /\ opened[s] = 1 /\ closed[s] = 1 /\ Len(events[s]) = 1

\* current_file is set iff is_speaking iff a writer is open
Agree(s) ==
    /\ state[s].is_speaking <=> state[s].current_file # {}
    /\ state[s].is_speaking <=> current_writer[s] # {}
    /\ state[s].current_file = current_writer[s]

\* C3 as stated: current_file, is_speaking and the open writer agree in
\* every reachable state of every session, stop included.
C3_Original == \A s \in Sessions : Agree(s)

\* the session is inside stop, its stream torn down, its state not yet reset
BeingReset(s) == \E c \in Callers : pc[c] = "stop_reset" /\ s \in Stopping(c)

\* C3 as amended: the three agree in every reachable state of a session
\* but those inside stop_vad_recording between the teardown of the stream,
\* which closes the writer, and the reset of the state.
C3_AgreeButInReset == \A s \in Sessions : ~BeingReset(s) => Agree(s)

\* a capturing session that a stop is about to tear down
C3_Witness ==
    \E c \in Callers, s \in Sessions :
        /\ pc[c] = "stop_drop" /\ s \in Stopping(c)
        /\ state[s].is_speaking /\ current_writer[s] # {}

\* the notifications of a session, by name
Emitted(s, name) == Cardinality({i \in 1..Len(events[s]) : events[s][i].name = name})

Started(s) == Emitted(s, "vad-speech-start")
Detected(s) == Emitted(s, "vad-speech-detected")

\* the callback of s is between two chunks
Settled(s) == cb_pc[s] \in {"idle", "loop"}

\* C4: every capturing interval, however it ends, hands exactly one
\* "vad-speech-detected" to the notification sink when its writer is closed.
C4_OneArtifactPerInterval == \A s \in Sessions : Detected(s) = closed[s]

\* two bursts of speech classified, the callback between two chunks, no
\* file creation failed
TwoBursts(s) ==
    /\ stream[s] = "playing"
    /\ Settled(s)
    /\ hist[s].bursts = 2
    /\ ~hist[s].create_failed

\* n capturing intervals opened, the last of which may still be open
Intervals(s, n) ==
    /\ opened[s] = n
    /\ Started(s) = n
    /\ Detected(s) = IF current_writer[s] # {} THEN n - 1 ELSE n

\* C5 as stated: over two bursts of speech, a gap below the silence
\* timeout gives one capturing interval and one artifact, a gap above it
\* gives two capturing intervals and two artifacts.
C5_Original ==
    \A s \in Sessions : \A gap \in hist[s].gap :
        TwoBursts(s) =>
            /\ gap < silence_timeout[s] => Intervals(s, 1)
            /\ gap > silence_timeout[s] => Intervals(s, 2)

\* C5 as amended: with a silence timeout above zero, a gap below the
\* timeout gives one interval and one artifact; two intervals and two
\* artifacts result exactly when a chunk between the bursts was processed
\* with the time since the last speech chunk not below the timeout.
C5_Hysteresis ==
    \A s \in Sessions : \A gap \in hist[s].gap :
        (TwoBursts(s) /\ silence_timeout[s] > 0) =>
            /\ gap < silence_timeout[s] => Intervals(s, 1)
            /\ hist[s].timed_out => (gap >= silence_timeout[s] /\ Intervals(s, 2))
            /\ ~hist[s].timed_out => Intervals(s, 1)

\* two bursts, two intervals, both closed by the timeout
C5_Witness ==
    \E s \in Sessions :
        /\ TwoBursts(s) /\ hist[s].timed_out /\ silence_timeout[s] > 0
        /\ current_writer[s] = {} /\ Detected(s) = 2

\* one step of the program seen from a session whose writer is open
C6_Step ==
    \A s \in Sessions :
        (stream[s] = "playing" /\ stream'[s] = "playing" /\ current_writer[s] # {}) =>
            /\ Started(s) = opened[s]
            /\ Started(s) - Detected(s) = 1
            /\ IF cb_pc[s] = "transition" /\ cb_pc'[s] = "loop"
                 THEN IF cb_local[s].now - TheOne(last_speech_time[s]) < silence_timeout[s]
                        THEN /\ current_writer'[s] = current_writer[s]
                             /\ events'[s] = events[s]
                             /\ state'[s] = state[s]
                        ELSE /\ current_writer'[s] = {}
                             /\ events'[s] # <<>>
                             /\ \E e \in {events'[s][Len(events'[s])]} :
                                  /\ events'[s] = Append(events[s], e)
                                  /\ e.name = "vad-speech-detected"
                                  /\ e.file_path = current_writer[s]
                             /\ Detected(s)' = Started(s)'
                 ELSE /\ current_writer'[s] = current_writer[s]
                      /\ events'[s] = events[s]

\* C6: while a recording is open the callback keeps the one writer for as
\* long as the chunks it processes find the time since the last speech chunk
\* below the silence timeout, and closes it, with one artifact notification,
\* at the first chunk that does not; each interval has fired one
\* speech-start.
C6_ContinuousSpeech == [][C6_Step]_vars

\* an interval of two chunks or more that the timeout has closed
C6_Witness ==
    \E s \in Sessions :
        /\ stream[s] = "playing" /\ Started(s) = 1 /\ Detected(s) = 1
        /\ \E f \in DOMAIN fs : Len(fs[f]) >= 2 * ChunkSize

\* C7: a session in which no chunk was classified as speech creates no
\* file, opens no writer, emits nothing and never says it is speaking.
C7_NoSpeechNoFile ==
    \A s \in Sessions :
        (stream[s] = "playing" /\ hist[s].bursts = 0) =>
            /\ opened[s] = 0
            /\ closed[s] = 0
            /\ events[s] = <<>>
            /\ current_writer[s] = {}
            /\ ~state[s].is_speaking
            /\ state[s].current_file = {}

\* every chunk of the run classified, none as speech
C7_Witness ==
    \E s \in Sessions :
        /\ stream[s] = "playing" /\ is_running[s] /\ hist[s].bursts = 0
        /\ fed[s] = MaxChunks * ChunkSize /\ audio_buffer[s] = <<>> /\ cb_pc[s] = "idle"

\* what a command that has just returned gave its caller
Returned(c, cmd) == pc[c] = "done" /\ op[c] = cmd

Live == {s \in Sessions : stream[s] \in {"built", "playing"}}

\* what stop_vad_recording leaves of the session it has stopped
Stopped(S) ==
    /\ VAD_SESSION = {}
    /\ Live = {}
    /\ \A s \in S : stream[s] = "dropped" /\ ~is_running[s] /\ state[s] = IdleState

\* a start that has stopped a session builds from what stop leaves
C8_Replaced ==
    \A c \in Callers :
        (pc[c] = "start_build" /\ replaced[c] # {}) => Stopped(replaced[c])

\* no stream is built while another is there
C8_OldFirst == next_session' # next_session => Live = {}

\* the session of the caller is the registered one and the only stream
C8_Registered(c) ==
    /\ VAD_SESSION = session[c]
    /\ Live = session[c]
    /\ \A s \in session[c] : stream[s] = "playing" /\ is_running[s]

\* the step on which start() returns Ok
C8_AtReturn ==
    \A c \in Callers :
        (pc[c] # "done" /\ pc'[c] = "done" /\ op'[c] = "start" /\ result'[c] = "Ok") =>
            /\ C8_Registered(c)'
            /\ \A s \in session'[c] : state'[s] = VadState(TRUE, FALSE, {})

\* C8: issued by the one caller while a session is active, start() leaves
\* the old session as stop() leaves it before it builds the new stream, and
\* returns with the new session registered, its stream the only one, and
\* the state {is_running=true, is_speaking=false, current_file=None}.
C8_Original == [][C8_AtReturn]_vars

\* what start() has returned: is_speaking and current_file are still
\* initial if no chunk of the new stream was classified as speech
C8_StateUntilSpeech ==
    \A c \in Callers :
        (Returned(c, "start") /\ result[c] = "Ok") =>
            /\ C8_Registered(c)
            /\ \A s \in session[c] :
                 /\ state[s].is_running
                 /\ hist[s].bursts = 0 => state[s] = VadState(TRUE, FALSE, {})

\* C8 as amended: issued by the one caller while a session is active,
\* start() leaves the old session as stop() leaves it before it builds the
\* new stream, and returns with the new session registered, its stream the
\* only one and is_running=true; is_speaking=false and current_file=None
\* hold until the callback of the new stream, which runs from play() on,
\* has classified a chunk as speech.
C8_StartReplaces ==
    [](C8_Replaced /\ C8_StateUntilSpeech) /\ [][C8_OldFirst]_vars

\* a start that has replaced a capturing session
C8_Witness ==
    \E c \in Callers :
        /\ Returned(c, "start") /\ result[c] = "Ok"
        /\ \E s \in replaced[c] : closed[s] = 1

\* C9: a start() that returns an error leaves no session registered and no
\* stream built or playing, whether or not a session was active before, and
\* a getState() that follows returns the all-idle default.
C9_FailedStartLeavesNothing ==
    /\ \A c \in Callers :
         (Returned(c, "start") /\ result[c] \in SetupErrors) =>
             VAD_SESSION = {} /\ Live = {}
    /\ (prev[1] = "start" /\ prev[2] \in SetupErrors) =>
         /\ (\A c \in threads : pc[c] = "idle") => (VAD_SESSION = {} /\ Live = {})
         /\ \A c \in Callers : Returned(c, "get") => snapshot[c] = IdleState

\* getState() after a start() that stopped a capturing session and failed
C9_Witness ==
    \E c \in Callers :
        /\ Returned(c, "get")
        /\ prev[1] = "start" /\ prev[2] \in SetupErrors
        /\ closed[1] = 1

\* the step of a stop that finds the slot empty
C10_EmptyStop ==
    \A c \in Callers :
        (pc[c] = "idle" /\ pc'[c] = "done" /\ op'[c] = "stop") =>
            /\ VAD_SESSION = {}
            /\ result'[c] = "NotInitialized"
            /\ UNCHANGED <<slot_vars, next_session, shared_vars, closure_vars,
                           callback_vars, world_vars, history_vars>>

\* what a stop returns, by the command before it
C10_Consecutive ==
    \A c \in Callers :
        Returned(c, "stop") =>
            /\ result[c] = "NotInitialized" <=> session[c] = {}
            /\ prev = <<"start", "Ok">> => result[c] = "Ok"
            /\ prev[1] = "stop" => result[c] = "NotInitialized"

\* C10: stop() returns NotInitialized exactly when the slot is empty, and
\* then changes nothing; a stop() that follows a successful start() returns
\* Ok and a stop() that follows a stop() returns NotInitialized.
C10_StopWithoutSession == []C10_Consecutive /\ [][C10_EmptyStop]_vars

\* start, stop, stop: the second stop has returned
C10_Witness ==
    \E c \in Callers :
        /\ Returned(c, "stop") /\ result[c] = "NotInitialized"
        /\ prev = <<"stop", "Ok">>

\* the step on which get_vad_state returns: Ok, with the default when the
\* slot is empty and else with the state of the registered session, whose
\* is_running is true
C11_AtReturn ==
    \A c \in Callers :
        (pc[c] # "done" /\ pc'[c] = "done" /\ op'[c] = "get") =>
            /\ result'[c] = "Ok"
            /\ VAD_SESSION = {} => snapshot'[c] = VadState(FALSE, FALSE, {})
            /\ \A s \in VAD_SESSION :
                 snapshot'[c] = state[s] /\ snapshot'[c].is_running

\* what get_vad_state has returned, by the command before it
C11_ByHistory ==
    \A c \in Callers :
        Returned(c, "get") =>
            /\ result[c] = "Ok"
            /\ (prev = <<"none", "none">> \/ prev = <<"stop", "Ok">>
                  \/ (prev[1] = "start" /\ prev[2] \in SetupErrors)) =>
                 snapshot[c] = VadState(FALSE, FALSE, {})
            /\ prev = <<"start", "Ok">> => snapshot[c].is_running

\* C11: getState() never returns an error; with no session registered
\* (before any start, after a successful stop, after a failed start) it
\* returns the all-idle default, and with a session registered it returns
\* that session's current state, whose is_running is true.
C11_GetState == []C11_ByHistory /\ [][C11_AtReturn]_vars

\* getState() has returned the state of a capturing session
C11_Witness ==
    \E c \in Callers :
        /\ Returned(c, "get") /\ prev = <<"start", "Ok">>
        /\ snapshot[c].is_speaking /\ snapshot[c].current_file # {}

\* the inputs of a session are numbered in arrival order: from + 1 .. from + n
Run(from, n) == [i \in 1..n |-> from + i]

\* samples of a session that have left the queue in chunks
Chunked(s) == fed[s] - Len(audio_buffer[s])

\* in a running session the queue is the input that has not left in chunks,
\* whole chunks have left, the chunk at hand is the input just before the
\* queue, and a callback that has returned leaves less than a chunk queued
C12_Queue ==
    \A s \in Sessions :
        (stream[s] = "playing" /\ is_running[s]) =>
            /\ Chunked(s) >= 0
            /\ Chunked(s) % ChunkSize = 0
            /\ audio_buffer[s] = Run(Chunked(s), Len(audio_buffer[s]))
            /\ cb_pc[s] \in {"lock", "transition"} =>
                 cb_local[s].chunk = Run(Chunked(s) - ChunkSize, ChunkSize)
            /\ cb_pc[s] = "idle" => Len(audio_buffer[s]) < ChunkSize

\* a chunk leaves from the front of the queue and takes nothing else along;
\* a callback adds its slice at the back
C12_Step ==
    \A s \in Sessions :
        (stream[s] = "playing" /\ stream'[s] = "playing" /\ is_running[s]) =>
            /\ (cb_pc[s] = "loop" /\ cb_pc'[s] = "lock") =>
                 /\ Len(cb_local'[s].chunk) = ChunkSize
                 /\ cb_local'[s].chunk \o audio_buffer'[s] = audio_buffer[s]
            /\ (cb_pc[s] = "idle" /\ cb_pc'[s] = "loop") =>
                 audio_buffer'[s] = audio_buffer[s] \o Run(fed[s], fed'[s] - fed[s])
            /\ (cb_pc'[s] = cb_pc[s] \/ cb_pc[s] \notin {"idle", "loop"}) =>
                 audio_buffer'[s] = audio_buffer[s]

\* C12: the chunker neither reorders nor drops samples. For every slicing
\* of the input into callbacks of a running session, the chunks taken so
\* far followed by the queue are the input so far, in order, and the queue
\* holds less than a chunk whenever a callback has returned.
C12_Chunker == []C12_Queue /\ [][C12_Step]_vars

\* chunks have left and a remainder waits for the next callback
C12_Witness ==
    \E s \in Sessions :
        /\ stream[s] = "playing" /\ is_running[s] /\ cb_pc[s] = "idle"
        /\ Chunked(s) >= 2 * ChunkSize /\ Len(audio_buffer[s]) = 1

\* some configuration of the device has the rate in its range
Supports(configs, rate) ==
    \E i \in 1..Len(configs) :
        configs[i].min_sample_rate <= rate /\ rate <= configs[i].max_sample_rate

\* the highest rate of any configuration of the device
MaxRate(configs) ==
    CHOOSE r \in {configs[i].max_sample_rate : i \in 1..Len(configs)} :
        \A i \in 1..Len(configs) : configs[i].max_sample_rate <= r

\* the rate by priority over all the configurations of the device
RateByPriority(configs) ==
    IF Supports(configs, 16000) THEN 16000
    ELSE IF Supports(configs, 48000) THEN 48000
    ELSE IF Supports(configs, 44100) THEN 44100
    ELSE MaxRate(configs)

\* C13: the stream is built with one channel and with the sample rate that
\* comes first, over all the configurations the device supports, in the
\* order 16000 Hz, 48000 Hz, 44100 Hz, the device's maximum rate.
C13_RateByPriority ==
    \A c \in config :
        c = [channels |-> 1, sample_rate |-> RateByPriority(supported_configs)]

\* the step of an Idle-to-Capturing transition of session s
Opens(s) == opened'[s] = opened[s] + 1

\* C14: distinct capturing intervals never share an output file. Each
\* Idle-to-Capturing transition allocates a path that no earlier interval
\* had, so no file is truncated or written again after its speech end.
C14_Step ==
    \A s \in Sessions :
        /\ Opens(s) => \A f \in current_writer'[s] : f \notin DOMAIN fs
        /\ \A f \in DOMAIN fs :
             (\A r \in Sessions : f \notin current_writer[r]) => fs'[f] = fs[f]

C14_FreshFile == [][C14_Step]_vars

\* the callback of s ends a chunk that should have opened a recording and
\* has not: create_wav_writer has failed
CreateFails(s) ==
    /\ cb_pc[s] = "transition" /\ cb_pc'[s] # "transition"
    /\ cb_local[s].should_record /\ current_writer[s] = {}
    /\ opened'[s] = opened[s]

\* the failed transition leaves the session idle, emits nothing, writes
\* nothing, and the callback goes on with its loop
C15_Step ==
    \A s \in Sessions :
        CreateFails(s) =>
            /\ current_writer'[s] = {}
            /\ state'[s] = state[s]
            /\ ~state'[s].is_speaking /\ state'[s].current_file = {}
            /\ events'[s] = events[s]
            /\ fs' = fs
            /\ cb_pc'[s] = "loop"
            /\ stream'[s] = "playing"

\* C15: when creating the output file fails during an Idle-to-Capturing
\* transition, no writer is tracked, is_speaking stays false, current_file
\* stays None, no speech-start is emitted, the chunk is written nowhere,
\* and the callback continues with the following chunks.
C15_CreateFailure ==
    /\ [][C15_Step]_vars
    /\ [](\A s \in Sessions :
            (stream[s] = "playing" /\ hist[s].create_failed /\ opened[s] = 0) =>
                /\ current_writer[s] = {} /\ events[s] = <<>> /\ fs = <<>>
                /\ ~state[s].is_speaking /\ state[s].current_file = {})

\* after a failed creation a following chunk has opened a recording
C15_Witness ==
    \E s \in Sessions :
        /\ stream[s] = "playing" /\ hist[s].create_failed
        /\ opened[s] = 1 /\ closed[s] = 0 /\ current_writer[s] # {}

\* the step of a chunk whose write_sample is the first of the session to fail
WriteFails(s) == hist'[s].write_failed /\ ~hist[s].write_failed

\* C16: when writing a chunk's samples to the open writer fails, the state
\* machine falls back to Idle (writer released, is_speaking false,
\* current_file None) and the stream keeps running.
C16_Step ==
    \A s \in Sessions :
        WriteFails(s) =>
            /\ current_writer'[s] = {}
            /\ ~state'[s].is_speaking
            /\ state'[s].current_file = {}
            /\ stream'[s] = "playing"

C16_WriteFailure == [][C16_Step]_vars

\* stop has returned: no writer of the session is open, every writer it
\* opened is finalized, and the state is idle
C17_Returned ==
    \A c \in Callers : \A s \in Sessions :
        StopReturned(c, s) =>
            /\ current_writer[s] = {}
            /\ closed[s] = opened[s]
            /\ state[s] = VadState(FALSE, FALSE, {})

\* with the stream of a session torn down and no other stream playing, no
\* file is created or appended to
C17_Frozen ==
    \A s \in Sessions :
        (stream[s] = "dropped" /\ Playing = {}) =>
            fs' = fs /\ current_writer'[s] = {}

\* C17: stopping a session while it is capturing leaves the recorder idle
\* with the open writer finalized; after stop() returns no writer of the
\* session remains open and no further sample is appended to its file.
C17_StopWhileCapturing == []C17_Returned /\ [][C17_Frozen]_vars

\* stop has returned for a session it found capturing, with samples on file
C17_Witness ==
    \E c \in Callers, s \in Sessions :
        /\ StopReturned(c, s)
        /\ closed[s] = Detected(s) + 1
        /\ \E f \in DOMAIN fs : Len(fs[f]) >= ChunkSize

\* what get_vad_state has to answer in the current state
Answer ==
    IF VAD_SESSION = {} THEN VadState(FALSE, FALSE, {})
    ELSE state[TheOne(VAD_SESSION)]

\* a step of get_vad_state by caller c
GetStep(c) ==
    /\ pc'[c] # pc[c]
    /\ (pc[c] = "idle" /\ op'[c] = "get") \/ pc[c] = "get_read"

\* a step of get_vad_state changes nothing but the slot guard it holds and
\* its own frame, and what it returns is the answer of the state it found
C18_Step ==
    \A c \in Callers :
        GetStep(c) =>
            /\ UNCHANGED <<VAD_SESSION, next_session, shared_vars, closure_vars,
                           callback_vars, world_vars, history_vars, device_vars>>
            /\ Answer' = Answer
            /\ pc'[c] = "done" => (snapshot'[c] = Answer /\ slot_lock' = {})

\* C18: getState() is a pure read. It changes neither the registered
\* session nor the recorder state, and it returns the answer of the state it
\* finds, so consecutive calls with no start, stop or callback transition
\* between them return identical values.
C18_PureRead == [][C18_Step]_vars

\* a getState() after a getState() has returned the state of a capturing
\* session
C18_Witness ==
    \E c \in Callers :
        /\ Returned(c, "get") /\ prev = <<"get", "Ok">>
        /\ snapshot[c] = Answer /\ snapshot[c].is_speaking

\* ---------------------------------------------------------------------- C19
\* C19: write_text preserves the user's clipboard: when the clipboard held
\* text before the call, it holds that same text when the call returns,
\* with success or with the error of any intermediate step.
C19_ClipboardPreserved ==
    (wt_pc = "done" /\ before # {}) => clipboard = before

\* ---------------------------------------------------------------------- C20
\* the step of a Capturing-to-Idle transition of session s
Closes(s) == closed'[s] = closed[s] + 1

\* the callback of s ends the loop body of a chunk
ChunkStep(s) ==
    /\ stream[s] = "playing" /\ stream'[s] = "playing"
    /\ cb_pc[s] = "transition" /\ cb_pc'[s] = "loop"

\* samples of s whose chunks have gone through the whole loop body
Processed(s) ==
    Chunked(s) - (IF cb_pc[s] \in {"lock", "transition"} THEN ChunkSize ELSE 0)

\* the samples are the n inputs of s that arrived last before input number upto
LastRun(samples, upto) == samples = Run(upto - Len(samples), Len(samples))

\* the chunk that opens an interval is the whole content of the new file;
\* the chunk that closes an interval goes to no file, and the artifact is
\* the whole chunks that came before the closing chunk; a chunk in between
\* is appended to the open file; nothing else is written
C20_Step ==
    \A s \in Sessions :
        ChunkStep(s) =>
            LET chunk == cb_local[s].chunk
                ok == ~hist'[s].write_failed
            IN /\ Opens(s) =>
                    \A f \in current_writer'[s] :
                        /\ ok => fs'[f] = chunk
                        /\ \A g \in DOMAIN fs \ {f} : fs'[g] = fs[g]
               /\ Closes(s) =>
                    /\ fs' = fs
                    /\ current_writer'[s] = {}
                    /\ \A f \in current_writer[s] :
                         /\ events'[s][Len(events'[s])].file_path = {f}
                         /\ ok => /\ LastRun(fs'[f], Chunked(s) - ChunkSize)
                                  /\ Len(fs'[f]) >= ChunkSize
                                  /\ Len(fs'[f]) % ChunkSize = 0
               /\ (~Opens(s) /\ ~Closes(s)) =>
                    /\ current_writer'[s] = current_writer[s]
                    /\ \A f \in current_writer[s] :
                         /\ ok => fs'[f] = fs[f] \o chunk
                         /\ \A g \in DOMAIN fs \ {f} : fs'[g] = fs[g]
                    /\ current_writer[s] = {} => fs' = fs

\* the callback of s takes its input: it is told to run or is under way
Taking(s) == stream[s] = "playing" /\ (is_running[s] \/ cb_pc[s] # "idle")

\* while an interval is open and no write of the session has failed, its
\* file holds, in arrival order, the whole chunks from the opening chunk to
\* the last chunk that went through the loop body
C20_File ==
    \A s \in Sessions :
        (Taking(s) /\ ~hist[s].write_failed) =>
            \A f \in current_writer[s] :
                /\ f \in DOMAIN fs
                /\ LastRun(fs[f], Processed(s))
                /\ Len(fs[f]) >= ChunkSize
                /\ Len(fs[f]) % ChunkSize = 0

ReadFails(s) ==
    /\ ChunkStep(s) /\ Closes(s)
    /\ \/ events'[s] = events[s]
       \/ events'[s][Len(events'[s])].file_contents = {}

C21_Step ==
    \A s \in Sessions :
        ReadFails(s) =>
            /\ events'[s] # <<>>
            /\ \E e \in {events'[s][Len(events'[s])]} :
                 /\ events'[s] = Append(events[s], e)
                 /\ e.name = "vad-speech-detected"
                 /\ e.file_path = current_writer[s]
                 /\ e.file_path # {}
                 /\ e.file_contents = {}
            /\ ~state'[s].is_speaking
            /\ state'[s].current_file = {}
            /\ current_writer'[s] = {}
            /\ state'[s].is_running = state[s].is_running

\* C21: on a Capturing-to-Idle transition where reading back the completed
\* file fails, the artifact notification is still emitted exactly once,
\* with the file path and absent contents, and the state still becomes
\* is_speaking = false, current_file = None, with no writer open.
C21_ReadFailure == [][C21_Step]_vars

\* a recording that holds samples has been closed with a notification that
\* names it and carries no contents
C21_Witness ==
    \E s \in Sessions :
        /\ stream[s] = "playing" /\ closed[s] = 1 /\ current_writer[s] = {}
        /\ ~state[s].is_speaking /\ state[s].current_file = {}
        /\ Len(events[s]) = 2
        /\ events[s][2].name = "vad-speech-detected"
        /\ events[s][2].file_contents = {}
        /\ \A f \in events[s][2].file_path : f \in DOMAIN fs /\ fs[f] # <<>>
        /\ events[s][2].file_path # {}

\* ---------------------------------------------------------------------- C22
\* the name of the i-th notification when the notifications alternate
Alternating(i) == IF i % 2 = 1 THEN "vad-speech-start" ELSE "vad-speech-detected"

\* C22: within one session the notifications strictly alternate, starting
\* with speech-start: at every moment of a session the number of
\* speech-start notifications minus the number of speech-detected
\* notifications is 0 or 1, and it is 1 exactly when a writer is open.
C22_Alternation ==
    \A s \in Sessions :
        s \in Live =>
            /\ \A i \in 1..Len(events[s]) : events[s][i].name = Alternating(i)
            /\ Started(s) - Detected(s) \in {0, 1}
            /\ Started(s) - Detected(s) = 1 <=> current_writer[s] # {}

\* the second interval of a session is open: start, detected, start
C22_Witness ==
    \E s \in Sessions :
        /\ s \in Live /\ Len(events[s]) = 3
        /\ Started(s) = 2 /\ Detected(s) = 1 /\ current_writer[s] # {}

\* ---------------------------------------------------------------------- C24
\* an Idle-to-Capturing transition of a session in which create_wav_writer
\* has not failed is made by a chunk whose probability is strictly above
\* the threshold; one made by a chunk that is not speech is a retry: the
\* creation has failed before and the last speech chunk is less than the
\* silence timeout ago
C24_Step ==
    \A s \in Sessions :
        (ChunkStep(s) /\ Opens(s)) =>
            /\ ~hist[s].create_failed =>
                 /\ cb_local[s].probability > threshold[s]
                 /\ cb_local[s].is_speech
                 /\ last_speech_time[s] = {cb_local[s].now}
            /\ ~(cb_local[s].probability > threshold[s]) =>
                 /\ hist[s].create_failed
                 /\ last_speech_time[s] # {}
                 /\ cb_local[s].now - TheOne(last_speech_time[s]) < silence_timeout[s]

\* C24: when file creation never fails, every Idle-to-Capturing transition
\* happens while processing a chunk classified as speech (probability
\* strictly above the threshold); a non-speech chunk can open a file only
\* as a retry after an earlier file creation failure within the silence
\* window.
C24_OpensOnSpeech == [][C24_Step]_vars

\* with no creation failure a second interval has been opened, by a speech
\* chunk
C24_Witness ==
    \E s \in Sessions :
        /\ stream[s] = "playing" /\ ~hist[s].create_failed
        /\ opened[s] = 2 /\ closed[s] = 1 /\ current_writer[s] # {}
        /\ hist[s].speech /\ cb_pc[s] = "loop"

\* the retry: after a failed creation a chunk that is not speech has opened
\* the file
C24_Retry ==
    \E s \in Sessions :
        /\ stream[s] = "playing" /\ hist[s].create_failed /\ ~hist[s].write_failed
        /\ opened[s] = 1 /\ closed[s] = 0 /\ ~hist[s].speech
        /\ \A f \in current_writer[s] : Len(fs[f]) = ChunkSize
        /\ current_writer[s] # {}

\* ---------------------------------------------------------------------- C25
\* a session with a silence timeout of 0 never records: whatever its chunks
\* are, should_record is false, so it opens no writer, creates no file and
\* emits nothing
C25_ZeroNeverRecords ==
    \A s \in Sessions :
        (stream[s] = "playing" /\ silence_timeout[s] = 0) =>
            /\ ~cb_local[s].should_record
            /\ opened[s] = 0 /\ closed[s] = 0
            /\ current_writer[s] = {}
            /\ events[s] = <<>>
            /\ fs = <<>>
            /\ ~state[s].is_speaking /\ state[s].current_file = {}

\* Some(ms) is a timeout of ms milliseconds and None one of 800 ms, which
\* no gap of the run reaches: a recording once opened stays open
C25_Default ==
    /\ SilenceTimeout({}) = 800
    /\ \A ms \in UNION TimeoutInputs : SilenceTimeout({ms}) = ms
    /\ \A s \in Sessions :
         (stream[s] = "playing" /\ silence_timeout[s] = SilenceTimeout({})) =>
             /\ closed[s] = 0
             /\ last_speech_time[s] # {} =>
                  ShouldRecord(last_speech_time[s], clock, silence_timeout[s])

\* C25: with silenceTimeoutMs = 0 the recording condition (elapsed since
\* the last speech strictly below the timeout) is never true, so no file is
\* created and no notification fires even when every chunk is classified
\* as speech; with silenceTimeoutMs omitted the timeout is 800 ms.
C25_ZeroAndDefault == C25_ZeroNeverRecords /\ C25_Default

\* a session with a timeout of 0 has processed two chunks, both speech
C25_Witness ==
    \E s \in Sessions :
        /\ stream[s] = "playing" /\ silence_timeout[s] = 0
        /\ cb_pc[s] = "idle" /\ Chunked(s) >= 2 * ChunkSize
        /\ hist[s].bursts = 1 /\ hist[s].speech
        /\ last_speech_time[s] # {}
        /\ fs = <<>> /\ events[s] = <<>>

\* ---------------------------------------------------------------------- C23
\* the order of the locks: a caller holds the slot mutex only while
\* get_vad_state reads or start_vad_recording stores, never during the
\* teardown or the reset of stop_vad_recording; the state mutex is held by
\* the callback, between its lock and the end of the loop body
C23_LockOrder ==
    /\ \A c \in Callers :
         /\ c \in slot_lock <=> pc[c] \in {"get_read", "start_store"}
         /\ pc[c] \in {"stop_drop", "stop_reset"} => c \notin slot_lock
    /\ \A s \in Sessions :
         /\ state_lock[s] \subseteq {"callback"}
         /\ state_lock[s] = {"callback"} <=> cb_pc[s] = "transition"

\* nothing is under way: no caller is inside a command, no callback is
\* running, no mutex is held
Quiet ==
    /\ \A c \in Callers : pc[c] = "idle"
    /\ \A s \in Sessions : cb_pc[s] = "idle" /\ state_lock[s] = {}
    /\ slot_lock = {}

\* whatever is under way comes to its end: after every moment there is one
\* at which every command that was called has returned, every callback
\* that was entered has returned and every mutex that was taken is free
C23_Completes == []<>Quiet

====
